---------------------------- MODULE Spec2Model ----------------------------
(***************************************************************************)
(* The auto-crop pipeline of image_transform_tool/auto_crop.py.            *)
(*                                                                         *)
(* Spec is one run of main(), stage by stage.  What OpenCV returns for an  *)
(* image (whether imread finds the file, whether any contour survives,     *)
(* which rectangle minAreaRect/boxPoints yields, whether imwrite can       *)
(* write) is the environment's choice.                                     *)
(*                                                                         *)
(* SpecGeometry applies order_points and the sizing of                     *)
(* warp_and_crop_image, as the code computes them, to every four points of *)
(* a small grid.  Coordinates are integers (the code holds them as         *)
(* float32; on these values every sum, difference and comparison is        *)
(* exact).                                                                 *)
(***************************************************************************)
EXTENDS Integers, Sequences, FiniteSets

\* ------------------------------------------------------------------ bounds

\* Box corners are drawn from the grid 0..MaxCoord x 0..MaxCoord.
MaxCoord == 2

\* main is run with a margin of 0..MaxMargin pixels.
MaxMargin == 1

\* ------------------------------------------------------------------ inputs

Grid == (0..MaxCoord) \X (0..MaxCoord)

\* The synthetic axis-aligned rectangle of the spec's rotation-consistency
\* property, corners in the order TL, TR, BR, BL.
TestRect == << <<0, 0>>, <<100, 0>>, <<100, 60>>, <<0, 60>> >>

\* The permutations of 1..4.
Perms == { p \in [1..4 -> 1..4] : \A i, j \in 1..4 : p[i] = p[j] => i = j }

Permuted(pts, p) == [i \in 1..4 |-> pts[p[i]]]

\* The arguments order_points is applied to on its own: any four grid points,
\* and the test rectangle in any of its 24 presentations.
Quads == [1..4 -> Grid] \cup { Permuted(TestRect, p) : p \in Perms }

\* --kernel-w / --kernel-h / --erosion-k are unvalidated integers (type=int).
KernelWs == {0, 30}
KernelHs == {0, 10}
ErosionKs == {-1, 12}

\* ----------------------------------------------------------- order_points

\* np.argmin / np.argmax: the index of the first occurrence of the extremum.
ArgMin(v) ==
    CHOOSE i \in 1..4 : /\ \A j \in 1..4 : v[i] <= v[j]
                        /\ \A j \in 1..(i - 1) : v[j] > v[i]

ArgMax(v) ==
    CHOOSE i \in 1..4 : /\ \A j \in 1..4 : v[i] >= v[j]
                        /\ \A j \in 1..(i - 1) : v[j] < v[i]

\* pts.sum(axis=1): x + y of each point.
SumXY(pts) == [i \in 1..4 |-> pts[i][1] + pts[i][2]]

\* np.diff(pts, axis=1): y - x of each point.
DiffYX(pts) == [i \in 1..4 |-> pts[i][2] - pts[i][1]]

\* A wrong order_points: the difference taken as x - y.
order_points_swapped(pts) ==
    LET s == SumXY(pts)
        diff == [i \in 1..4 |-> pts[i][1] - pts[i][2]]
    IN  << pts[ArgMin(s)], pts[ArgMin(diff)], pts[ArgMax(s)], pts[ArgMax(diff)] >>

\* rect[0] = TL, rect[1] = TR, rect[2] = BR, rect[3] = BL (1-based here).
order_points(pts) ==
    LET s == SumXY(pts)
        diff == DiffYX(pts)
    IN  << pts[ArgMin(s)], pts[ArgMin(diff)], pts[ArgMax(s)], pts[ArgMax(diff)] >>

\* ---------------------------------------------------- warp_and_crop_image

RECURSIVE SqrtFrom(_, _)
SqrtFrom(n, k) == IF (k + 1) * (k + 1) > n THEN k ELSE SqrtFrom(n, k + 1)

\* int(np.sqrt(n)) for a non-negative integer n: the truncated square root.
IntSqrt(n) == SqrtFrom(n, 0)

\* ((a[0] - b[0]) ** 2) + ((a[1] - b[1]) ** 2)
SqDist(a, b) == (a[1] - b[1]) * (a[1] - b[1]) + (a[2] - b[2]) * (a[2] - b[2])

Max2(a, b) == IF a >= b THEN a ELSE b

\* What cv2.boxPoints(cv2.minAreaRect(...)) yields: the corners of a rectangle
\* at any rotation, in cyclic order from any corner (the diagonals bisect each
\* other and are equally long).  A point cloud of one point, or on one line,
\* gives a rectangle with no area.
Boxes ==
    { b \in [1..4 -> Grid] :
        /\ b[1][1] + b[3][1] = b[2][1] + b[4][1]
        /\ b[1][2] + b[3][2] = b[2][2] + b[4][2]
        /\ SqDist(b[1], b[3]) = SqDist(b[2], b[4]) }

\* A wrong width: the smaller of the two truncated edge lengths.
maxWidthOf_min(q) ==
    LET widthA == IntSqrt(SqDist(q[3], q[4]))
        widthB == IntSqrt(SqDist(q[2], q[1]))
    IN  IF widthA <= widthB THEN widthA ELSE widthB

\* maxWidth = max(int(widthA), int(widthB)), q = (tl, tr, br, bl).
maxWidthOf(q) ==
    LET widthA == IntSqrt(SqDist(q[3], q[4]))
        widthB == IntSqrt(SqDist(q[2], q[1]))
    IN  Max2(widthA, widthB)

\* maxHeight = max(int(heightA), int(heightB)).
maxHeightOf(q) ==
    LET heightA == IntSqrt(SqDist(q[2], q[3]))
        heightB == IntSqrt(SqDist(q[1], q[4]))
    IN  Max2(heightA, heightB)

\* The destination corners for a w x h rectangle and margin m.
dstOf(w, h, m) ==
    << <<m, m>>, <<w - 1 + m, m>>, <<w - 1 + m, h - 1 + m>>, <<m, h - 1 + m>> >>

\* A wrong canvas: the margin added once instead of on both sides.
canvasOf_once(w, h, m) == <<w + m, h + m>>

\* (final_canvas_w, final_canvas_h)
canvasOf(w, h, m) == <<w + 2 * m, h + 2 * m>>

\* --------------------------------------------------------- main: handlers

\* The classes an exception is an instance of.
Mro(e) ==
    CASE e = "FileNotFoundError" -> {"FileNotFoundError", "OSError", "Exception"}
      [] e = "ValueError" -> {"ValueError", "Exception"}
      [] e = "cv2.error" -> {"cv2.error", "Exception"}
      [] OTHER -> {}

NoCode == -1
Propagates == -2

\* A wrong except chain: the final `except Exception` clause is missing.
ExitCode_nocatchall(e) ==
    IF "FileNotFoundError" \in Mro(e) THEN 2
    ELSE IF "ValueError" \in Mro(e) THEN 3
    ELSE Propagates

\* The except clauses of main, first match wins.
ExitCode(e) ==
    IF "FileNotFoundError" \in Mro(e) THEN 2
    ELSE IF "ValueError" \in Mro(e) THEN 3
    ELSE IF "Exception" \in Mro(e) THEN 1
    ELSE Propagates

\* ------------------------------------------------------------------ state

VARIABLES
    margin,         \* main's arguments
    kernel_w,
    kernel_h,
    erosion_k,
    debug,
    pc,             \* the stage main is about to run, or "done"
    original_image, \* "unset" | "image"
    cleaned_mask,   \* "unset" | "black" (no foreground) | "content"
    detected_box,   \* <<>> or the four points of cv2.boxPoints
    ordered_pts,    \* <<>> or the result of order_points
    maxWidth,
    maxHeight,
    dst,            \* <<>> or the four destination corners
    canvas,         \* <<>> or <<final_canvas_w, final_canvas_h>>
    files,          \* the files written so far
    raised,         \* "none" or the class of the exception a stage raised
    failedAt,       \* "none" or the stage that raised
    exit_code,      \* NoCode until main returns
    log             \* the stages started, in order

\* Two runs of main at once, as a batch caller may start them.
VARIABLES
    out_path,       \* run -> its output_path
    run_debug,      \* run -> its debug flag
    run_pc,         \* run -> the stage it is about to run, or "done"
    written         \* the pairs <<path, run>>: run has written path

\* The review application (validation_tool): its three data directories and
\* the request last handled.
VARIABLES
    disk,           \* directory -> file name -> content
    source0,        \* the source directory when the application started
    committed,      \* file name -> the data last committed for it
    last            \* the last request and its response

\* Requests for one file handled at the same time by the review application's
\* threads.
VARIABLES
    reqs            \* request -> its kind, position, what it saw, its outcome

\* The transcription tool (process_journal): its .cache directory and the
\* call under way.
VARIABLES
    cache,          \* the Document AI cache file and the Gemini batch files
    call            \* the function called, its arguments, position and outcome

cropVars == << margin, kernel_w, kernel_h, erosion_k, debug, pc, original_image,
               cleaned_mask, detected_box, ordered_pts, maxWidth, maxHeight, dst,
               canvas, files, raised, failedAt, exit_code, log >>

runVars == << out_path, run_debug, run_pc, written >>

webVars == << disk, source0, committed, last >>

raceVars == << reqs >>

cacheVars == << cache, call >>

vars == << cropVars, runVars, webVars, raceVars, cacheVars >>

inputs == << margin, kernel_w, kernel_h, erosion_k, debug >>

\* No concurrent runs are under way.
RunsIdle ==
    /\ out_path = << >>
    /\ run_debug = << >>
    /\ run_pc = << >>
    /\ written = {}

\* No requests are being handled side by side.
RaceIdle == reqs = << >>

\* The transcription tool is not running.
CacheIdle ==
    /\ cache = << >>
    /\ call = << >>

\* The review application is not running.
WebIdle ==
    /\ disk = << >>
    /\ source0 = << >>
    /\ committed = << >>
    /\ last = << >>

Init ==
    /\ margin \in 0..MaxMargin
    /\ kernel_w \in KernelWs
    /\ kernel_h \in KernelHs
    /\ erosion_k \in ErosionKs
    /\ debug \in BOOLEAN
    /\ pc = "load"
    /\ original_image = "unset"
    /\ cleaned_mask = "unset"
    /\ detected_box = << >>
    /\ ordered_pts = << >>
    /\ maxWidth = 0
    /\ maxHeight = 0
    /\ dst = << >>
    /\ canvas = << >>
    /\ files = {}
    /\ raised = "none"
    /\ failedAt = "none"
    /\ exit_code = NoCode
    /\ log = << >>
    /\ RunsIdle
    /\ WebIdle
    /\ RaceIdle
    /\ CacheIdle

\* A wrong try block: a stage that raised is followed by the next stage.
StageEnd_continue(stage, e, next) == next

\* Where main goes when `stage` ends: on to `next`, or out through a handler.
StageEnd(stage, e, next) == IF e = "none" THEN next ELSE "done"

\* The bookkeeping every stage shares: the stage is entered, and either
\* returns (main goes on to `next`, returning 0 after the last stage) or
\* raises e, which reaches main's except clauses and becomes the exit code.
Finish(stage, e, next) ==
    /\ log' = Append(log, stage)
    /\ pc' = StageEnd(stage, e, next)
    /\ raised' = IF e = "none" THEN raised ELSE e
    /\ failedAt' = IF e = "none" THEN failedAt ELSE stage
    /\ exit_code' = IF e # "none" THEN ExitCode(e)
                    ELSE IF next = "done" THEN 0
                    ELSE exit_code

\* Step 1: cv2.imread returns None for a missing or unreadable file.
load_and_preprocess_image ==
    /\ pc = "load"
    /\ \E found \in BOOLEAN :
          /\ original_image' = IF found THEN "image" ELSE original_image
          /\ Finish("load", IF found THEN "none" ELSE "FileNotFoundError", "mask")
    /\ UNCHANGED << runVars, webVars, raceVars, cacheVars, inputs, cleaned_mask, detected_box, ordered_pts, maxWidth,
                    maxHeight, dst, canvas, files >>

\* What create_content_mask raises for its arguments: getStructuringElement
\* rejects an empty kernel (cv2.error), np.ones a negative side (ValueError).
MaskError(kw, kh, ek) ==
    IF kw <= 0 \/ kh <= 0 THEN "cv2.error"
    ELSE IF ek < 0 THEN "ValueError"
    ELSE "none"

\* Step 2: closing, erosion, reconstruction; the debug rasters.
create_content_mask ==
    /\ pc = "mask"
    /\ LET e == MaskError(kernel_w, kernel_h, erosion_k)
       IN  /\ \E m \in {"black", "content"} :
                 cleaned_mask' = IF e = "none" THEN m ELSE cleaned_mask
           /\ files' = IF e = "none" /\ debug
                       THEN files \cup {"closed", "reconstructed"}
                       ELSE files
           /\ Finish("mask", e, "boundary")
    /\ UNCHANGED << runVars, webVars, raceVars, cacheVars, inputs, original_image, detected_box, ordered_pts, maxWidth,
                    maxHeight, dst, canvas >>

\* A wrong find_document_boundary: the empty contour list is not checked for,
\* and a box is made up.
BoundaryError_unchecked(mask) == "none"

\* `if not contours: raise ValueError(...)`: a mask with no foreground has no
\* contours.
BoundaryError(mask) == IF mask = "black" THEN "ValueError" ELSE "none"

\* Step 3: the contours' point cloud, its minimum-area box, the ordered corners.
\* main then goes to the debug visualization or straight to the warp.
find_document_boundary ==
    /\ pc = "boundary"
    /\ LET e == BoundaryError(cleaned_mask)
       IN  /\ \E box \in Boxes :
                 /\ detected_box' = IF e = "none" THEN box ELSE detected_box
                 /\ ordered_pts' = IF e = "none" THEN order_points(box)
                                   ELSE ordered_pts
           /\ Finish("boundary", e, IF debug THEN "viz" ELSE "warp")
    /\ UNCHANGED << runVars, webVars, raceVars, cacheVars, inputs, original_image, cleaned_mask, maxWidth, maxHeight,
                    dst, canvas, files >>

\* The debug overlay; cv2.circle rejects numpy integers in some OpenCV builds.
save_debug_visualization ==
    /\ pc = "viz"
    /\ \E e \in {"none", "cv2.error"} :
          /\ files' = IF e = "none" THEN files \cup {"detected"} ELSE files
          /\ Finish("viz", e, "warp")
    /\ UNCHANGED << runVars, webVars, raceVars, cacheVars, inputs, original_image, cleaned_mask, detected_box,
                    ordered_pts, maxWidth, maxHeight, dst, canvas >>

\* Lines 112-140 of warp_and_crop_image: the destination size, the destination
\* corners and the canvas.
WarpGeometry ==
    LET w == maxWidthOf(ordered_pts)
        h == maxHeightOf(ordered_pts)
    IN  /\ maxWidth' = w
        /\ maxHeight' = h
        /\ dst' = dstOf(w, h, margin)
        /\ canvas' = canvasOf(w, h, margin)

\* Step 4: destination size from the ordered corners, destination corners and
\* canvas from the margin, then the warp.  A canvas with no pixels is left to
\* cv2.warpPerspective, which may reject it.
warp_and_crop_image ==
    /\ pc = "warp"
    /\ WarpGeometry
    /\ \E e \in {"none", "cv2.error"} :
          /\ e = "cv2.error" => (canvas'[1] <= 0 \/ canvas'[2] <= 0)
          /\ Finish("warp", e, "write")
    /\ UNCHANGED << runVars, webVars, raceVars, cacheVars, inputs, original_image, cleaned_mask, detected_box,
                    ordered_pts, files >>

\* cv2.imwrite(output_path, final_image), then `return 0`.  imwrite returns
\* False without raising when the file cannot be written, and raises for an
\* extension it has no writer for.
write_output ==
    /\ pc = "write"
    /\ \E r \in {"written", "not written", "cv2.error"} :
          /\ files' = IF r = "written" THEN files \cup {"output"} ELSE files
          /\ Finish("write", IF r = "cv2.error" THEN r ELSE "none", "done")
    /\ UNCHANGED << runVars, webVars, raceVars, cacheVars, inputs, original_image, cleaned_mask, detected_box,
                    ordered_pts, maxWidth, maxHeight, dst, canvas >>

Next ==
    \/ load_and_preprocess_image
    \/ create_content_mask
    \/ find_document_boundary
    \/ save_debug_visualization
    \/ warp_and_crop_image
    \/ write_output

Spec == Init /\ [][Next]_vars

\* ------------------------------------- the geometry functions on their own

\* order_points and the sizing of warp_and_crop_image are pure functions of
\* four points and a margin.  SpecGeometry applies them to every quad of
\* Quads, not only to the rectangles boundary detection produces.
InitGeometry ==
    /\ margin \in 0..MaxMargin
    /\ kernel_w = 30
    /\ kernel_h = 10
    /\ erosion_k = 12
    /\ debug = FALSE
    /\ pc = "order_points"
    /\ original_image = "unset"
    /\ cleaned_mask = "unset"
    /\ detected_box \in Quads
    /\ ordered_pts = << >>
    /\ maxWidth = 0
    /\ maxHeight = 0
    /\ dst = << >>
    /\ canvas = << >>
    /\ files = {}
    /\ raised = "none"
    /\ failedAt = "none"
    /\ exit_code = NoCode
    /\ log = << >>
    /\ RunsIdle
    /\ WebIdle
    /\ RaceIdle
    /\ CacheIdle

\* ordered_pts = order_points(pts)
apply_order_points ==
    /\ pc = "order_points"
    /\ ordered_pts' = order_points(detected_box)
    /\ pc' = "warp_geometry"
    /\ UNCHANGED << runVars, webVars, raceVars, cacheVars, inputs, original_image, cleaned_mask, detected_box, maxWidth,
                    maxHeight, dst, canvas, files, raised, failedAt, exit_code,
                    log >>

\* The sizing of warp_and_crop_image(_, ordered_pts, margin).
apply_warp_geometry ==
    /\ pc = "warp_geometry"
    /\ WarpGeometry
    /\ pc' = "returned"
    /\ UNCHANGED << runVars, webVars, raceVars, cacheVars, inputs, original_image, cleaned_mask, detected_box,
                    ordered_pts, files, raised, failedAt, exit_code, log >>

NextGeometry ==
    \/ apply_order_points
    \/ apply_warp_geometry

SpecGeometry == InitGeometry /\ [][NextGeometry]_vars

\* ------------------------------------------------------- claim vocabulary

Points(b) == { b[i] : i \in 1..4 }

Started(stage) == \E i \in 1..Len(log) : log[i] = stage

\* (b - a) x (c - a): zero exactly when a, b, c lie on one line.
Cross(a, b, c) ==
    (b[1] - a[1]) * (c[2] - a[2]) - (b[2] - a[2]) * (c[1] - a[1])

PairwiseDistinct(b) == \A i, j \in 1..4 : b[i] = b[j] => i = j

AllCollinear(b) == \A i, j, k \in 1..4 : Cross(b[i], b[j], b[k]) = 0

\* The degenerate quads of the spec: two corners coincide, or all four
\* points lie on one line.
Degenerate(b) == ~PairwiseDistinct(b) \/ AllCollinear(b)

\* A non-degenerate quad in the strictest reading: four distinct points, no
\* three of them on one line.
NonDegenerate(b) ==
    /\ PairwiseDistinct(b)
    /\ \A i, j, k \in 1..4 :
          (i # j /\ j # k /\ i # k) => Cross(b[i], b[j], b[k]) # 0

Ordered == ordered_pts # << >>

Warped == canvas # << >>

\* ------------------------------------------------------------------ claims

\* C1: order_points returns (TL, TR, BR, BL) with TL an input point of least
\* x + y, BR one of greatest x + y, TR one of least y - x and BL one of
\* greatest y - x.
C1_OrderPointsExtrema ==
    Ordered =>
        LET P == Points(detected_box)
            tl == ordered_pts[1]
            tr == ordered_pts[2]
            br == ordered_pts[3]
            bl == ordered_pts[4]
        IN  /\ {tl, tr, br, bl} \subseteq P
            /\ \A p \in P : tl[1] + tl[2] <= p[1] + p[2]
            /\ \A p \in P : br[1] + br[2] >= p[1] + p[2]
            /\ \A p \in P : tr[2] - tr[1] <= p[2] - p[1]
            /\ \A p \in P : bl[2] - bl[1] >= p[2] - p[1]

\* A box of four distinct grid points, not all on one line, has been ordered.
C1_Witness ==
    /\ Ordered
    /\ detected_box \in [1..4 -> Grid]
    /\ ~Degenerate(detected_box)

\* C2: for a non-degenerate quad the ordered result is the same whatever the
\* order in which the four points are presented.
C2_PermutationInvariant ==
    (Ordered /\ NonDegenerate(detected_box)) =>
        \A p \in Perms : order_points(Permuted(detected_box, p)) = ordered_pts

\* C3: the rectangle (0,0), (100,0), (100,60), (0,60), in any of its 24
\* input orders, is ordered as TL=(0,0), TR=(100,0), BR=(100,60), BL=(0,60).
C3_TestRectOrdered ==
    (Ordered /\ Points(detected_box) = Points(TestRect)) => ordered_pts = TestRect

\* The test rectangle was presented bottom-left first and has been ordered.
C3_Witness ==
    /\ Ordered
    /\ Points(detected_box) = Points(TestRect)
    /\ detected_box[1] = <<0, 60>>

\* C4: for a degenerate quad neither an ordered quad is returned nor a
\* rectified image written.
C4_DegenerateRejected ==
    (detected_box # << >> /\ Degenerate(detected_box)) =>
        (~Ordered /\ "output" \notin files)

\* C5: on a mask with no foreground, boundary detection raises the
\* ValueError that main reports as exit code 3; no quad is returned.
C5_NoContentIsDetectionFailure ==
    (cleaned_mask = "black" /\ Started("boundary")) =>
        /\ raised = "ValueError"
        /\ failedAt = "boundary"
        /\ exit_code = 3
        /\ pc = "done"
        /\ detected_box = << >>
        /\ ~Ordered

\* Boundary detection has run on a mask with no foreground.
C5_Witness == cleaned_mask = "black" /\ Started("boundary") /\ pc = "done"

\* C6: main returns 0 when every stage succeeds and the output is written, 2
\* when the image cannot be loaded, 3 when no boundary is detected, and 1 for
\* any other failure.
C6_ExitCodes ==
    pc = "done" =>
        LET noImage == failedAt = "load"
            noBoundary == failedAt = "boundary" /\ cleaned_mask = "black"
        IN  /\ (failedAt = "none" /\ "output" \in files) => exit_code = 0
            /\ noImage => exit_code = 2
            /\ noBoundary => exit_code = 3
            /\ (failedAt # "none" /\ ~noImage /\ ~noBoundary) => exit_code = 1

\* C7: the canvas is 2 * margin wider and taller than the zero-margin canvas
\* of the same quad, and every destination corner is the zero-margin corner
\* shifted by (margin, margin).
C7_MarginShiftsAndEnlarges ==
    Warped =>
        LET w == maxWidthOf(ordered_pts)
            h == maxHeightOf(ordered_pts)
            canvas0 == canvasOf(w, h, 0)
            dst0 == dstOf(w, h, 0)
        IN  /\ canvas[1] = canvas0[1] + 2 * margin
            /\ canvas[2] = canvas0[2] + 2 * margin
            /\ \A i \in 1..4 :
                  dst[i] = <<dst0[i][1] + margin, dst0[i][2] + margin>>

\* A quad with a destination of at least one pixel each way was warped with a
\* positive margin.
C7_Witness == Warped /\ margin > 0 /\ maxWidth > 0 /\ maxHeight > 0

\* A quad that order_points orders the same way in every presentation: no
\* tie decides a corner.
OrderIndependent(b) ==
    \A p \in Perms : order_points(Permuted(b, p)) = order_points(b)

\* C8 as stated: the destination width is the larger of the top and bottom
\* edge lengths, the height the larger of the left and right edge lengths
\* (here for the quads that are non-degenerate and ordered without a tie).
C8_ExactEdgeLengths ==
    (Warped /\ NonDegenerate(detected_box) /\ OrderIndependent(detected_box)) =>
        LET tl == ordered_pts[1]
            tr == ordered_pts[2]
            br == ordered_pts[3]
            bl == ordered_pts[4]
        IN  /\ maxWidth * maxWidth = Max2(SqDist(tr, tl), SqDist(br, bl))
            /\ maxHeight * maxHeight = Max2(SqDist(bl, tl), SqDist(br, tr))

\* C8 amended: the destination width is the integer part of the larger of the
\* top and bottom edge lengths, the height the integer part of the larger of
\* the left and right edge lengths.
C8_TruncatedEdgeLengths ==
    Warped =>
        LET tl == ordered_pts[1]
            tr == ordered_pts[2]
            br == ordered_pts[3]
            bl == ordered_pts[4]
            top2 == Max2(SqDist(tr, tl), SqDist(br, bl))
            side2 == Max2(SqDist(bl, tl), SqDist(br, tr))
        IN  /\ maxWidth >= 0
            /\ maxWidth * maxWidth <= top2
            /\ top2 < (maxWidth + 1) * (maxWidth + 1)
            /\ maxHeight >= 0
            /\ maxHeight * maxHeight <= side2
            /\ side2 < (maxHeight + 1) * (maxHeight + 1)

\* A quad whose top and bottom edges differ in length, the longer one not a
\* whole number of pixels, was warped.
C8_Witness ==
    /\ Warped
    /\ NonDegenerate(detected_box)
    /\ OrderIndependent(detected_box)
    /\ SqDist(ordered_pts[2], ordered_pts[1]) # SqDist(ordered_pts[3], ordered_pts[4])
    /\ maxWidth * maxWidth
         < Max2(SqDist(ordered_pts[2], ordered_pts[1]),
                SqDist(ordered_pts[3], ordered_pts[4]))

\* The five stages of the pipeline, in order; the debug overlay is not one.
StageOrder == << "load", "mask", "boundary", "warp", "write" >>

IsPipelineStage(stage) == stage # "viz"

\* C9: the stages run in the order load, mask, boundary, warp, write, each
\* on the result of the one before; once a stage fails no later stage runs
\* and the output image is not written.
C9_StagesInOrder ==
    LET run == SelectSeq(log, IsPipelineStage)
    IN  /\ Len(run) <= Len(StageOrder)
        /\ \A i \in 1..Len(run) : run[i] = StageOrder[i]
        /\ Started("mask") => original_image = "image"
        /\ Started("boundary") => cleaned_mask # "unset"
        /\ Started("warp") => Ordered
        /\ Started("write") => Warped
        /\ failedAt # "none" =>
              /\ pc = "done"
              /\ log[Len(log)] = failedAt
              /\ "output" \notin files

\* Boundary detection failed after two stages had succeeded.
C9_Witness == failedAt = "boundary" /\ Len(log) = 3 /\ pc = "done"

\* C10: whatever a stage raises, main returns an integer exit code; no
\* exception leaves main.
C10_FailureBecomesExitCode ==
    /\ exit_code # Propagates
    /\ raised # "none" => (pc = "done" /\ exit_code \in {1, 2, 3})
    /\ pc = "done" => exit_code \in {0, 1, 2, 3}

\* A stage raised an exception that only the last except clause catches.
C10_Witness == raised = "cv2.error" /\ pc = "done" /\ exit_code = 1

\* C11: main returns 3 only when boundary detection found no boundary and 2
\* only when the image could not be loaded; a failure of the warp or of the
\* output write yields neither.
C11_DetectionFailureDistinct ==
    pc = "done" =>
        /\ exit_code = 3 => (failedAt = "boundary" /\ cleaned_mask = "black")
        /\ exit_code = 2 => failedAt = "load"
        /\ failedAt \in {"warp", "write"} => exit_code \notin {2, 3}

\* C12: with debug set a successful run has written the _edged, _closed or
\* _reconstructed, and _detected rasters; with debug unset a run writes
\* nothing but the output image (a successful run: on a proper quad).
C12_DebugRasters ==
    /\ (pc = "done" /\ exit_code = 0 /\ debug /\ ~Degenerate(detected_box)) =>
          /\ "edged" \in files
          /\ ("closed" \in files \/ "reconstructed" \in files)
          /\ "detected" \in files
    /\ ~debug => files \subseteq {"output"}

\* The point p lies in the closed triangle a, b, c.
InTriangle(p, a, b, c) ==
    LET d1 == Cross(a, b, p)
        d2 == Cross(b, c, p)
        d3 == Cross(c, a, p)
    IN  ~((d1 < 0 \/ d2 < 0 \/ d3 < 0) /\ (d1 > 0 \/ d2 > 0 \/ d3 > 0))

\* The four points are the corners of a convex, non-degenerate quad: no three
\* on a line, none inside the triangle of the other three.
ConvexQuad(b) ==
    /\ NonDegenerate(b)
    /\ \A i, j, k, l \in 1..4 :
          Cardinality({i, j, k, l}) = 4 => ~InTriangle(b[i], b[j], b[k], b[l])

\* C15: for a convex, non-degenerate quad the corners returned by
\* order_points are the four input points, each in exactly one slot.
C15_ResultIsPermutation ==
    (Ordered /\ ConvexQuad(detected_box)) =>
        /\ Points(ordered_pts) = Points(detected_box)
        /\ PairwiseDistinct(ordered_pts)


-----------------------------------------------------------------------------
\* Two runs of main side by side.  Each run writes through cv2.imwrite, one
\* file at a time; a path is a sequence of tokens, "." being the one that
\* rsplit looks for.

\* The crop pipeline of the single-run specification is not under way.
CropIdle ==
    /\ margin = 0
    /\ kernel_w = 30
    /\ kernel_h = 10
    /\ erosion_k = 12
    /\ debug = FALSE
    /\ pc = "idle"
    /\ original_image = "unset"
    /\ cleaned_mask = "unset"
    /\ detected_box = << >>
    /\ ordered_pts = << >>
    /\ maxWidth = 0
    /\ maxHeight = 0
    /\ dst = << >>
    /\ canvas = << >>
    /\ files = {}
    /\ raised = "none"
    /\ failedAt = "none"
    /\ exit_code = NoCode
    /\ log = << >>

Runs == {"run1", "run2"}

\* The output paths a caller passes: a.jpg, a.png, b.jpg, a_closed.jpg.
OutputPaths ==
    { << "a", ".", "jpg" >>, << "a", ".", "png" >>, << "b", ".", "jpg" >>,
      << "a", "_closed", ".", "jpg" >> }

\* The positions of "." in path.
DotsOf(path) == { i \in 1..Len(path) : path[i] = "." }

\* output_path.rsplit(".", 1)[0]: what precedes the last ".", or the whole
\* path when it has none.
output_prefix(path) ==
    IF DotsOf(path) = {} THEN path
    ELSE SubSeq(path, 1, (CHOOSE i \in DotsOf(path) :
                              \A j \in DotsOf(path) : j <= i) - 1)

\* f"{output_path_prefix}_closed.jpg" and its two siblings.
DebugPath(path, suffix) == output_prefix(path) \o << suffix, ".", "jpg" >>

InitRuns ==
    /\ CropIdle
    /\ WebIdle
    /\ RaceIdle
    /\ CacheIdle
    /\ out_path \in [Runs -> OutputPaths]
    /\ run_debug \in [Runs -> BOOLEAN]
    /\ run_pc = [r \in Runs |-> "mask"]
    /\ written = {}

\* Run r writes the paths ps and moves on to stage next.
RunWrites(r, ps, next) ==
    /\ written' = written \cup { << q, r >> : q \in ps }
    /\ run_pc' = [run_pc EXCEPT ![r] = next]
    /\ UNCHANGED << cropVars, webVars, raceVars, cacheVars, out_path, run_debug >>

\* create_content_mask of run r: with debug, the closed and reconstructed
\* rasters are written beside the output.
run_create_content_mask(r) ==
    /\ run_pc[r] = "mask"
    /\ RunWrites(r,
                 IF run_debug[r]
                 THEN { DebugPath(out_path[r], "_closed"),
                        DebugPath(out_path[r], "_reconstructed") }
                 ELSE {},
                 IF run_debug[r] THEN "viz" ELSE "write")

\* save_debug_visualization of run r, called only with debug.
run_save_debug_visualization(r) ==
    /\ run_pc[r] = "viz"
    /\ RunWrites(r, { DebugPath(out_path[r], "_detected") }, "write")

\* cv2.imwrite(output_path, final_image) of run r.
run_write_output(r) ==
    /\ run_pc[r] = "write"
    /\ RunWrites(r, { out_path[r] }, "done")

\* A stage of run r raises: the run ends having written what it had.
run_fails(r) ==
    /\ run_pc[r] \in {"viz", "write"}
    /\ RunWrites(r, {}, "done")

NextRuns ==
    \E r \in Runs :
        \/ run_create_content_mask(r)
        \/ run_save_debug_visualization(r)
        \/ run_write_output(r)
        \/ run_fails(r)

SpecRuns == InitRuns /\ [][NextRuns]_vars

\* The paths run r has written.
WrittenBy(r) == { w[1] : w \in { x \in written : x[2] = r } }

\* C13: two runs with different output paths write disjoint sets of files:
\* no path is written by both.
C13_DisjointFiles ==
    out_path["run1"] # out_path["run2"] =>
        WrittenBy("run1") \cap WrittenBy("run2") = {}

-----------------------------------------------------------------------------
\* The review application.  Its state is the content of the three data
\* directories; a request handler runs from its first line to its response.
\* File names are numbered in sorted order: 1..MaxFiles end in ".json", the
\* name after them does not.

MaxFiles == 2

JsonNames == 1..MaxFiles

OtherFile == MaxFiles + 1

Names == JsonNames \cup {OtherFile}

\* f.endswith(".json")
endswith_json(f) == f \in JsonNames

SOURCE_DATA_DIR == "data_source"

IN_PROGRESS_DATA_DIR == "data_in_progress"

\* A wrong configuration: validated files go to the source directory.
VALIDATED_DATA_DIR_source == "data_source"

VALIDATED_DATA_DIR == "data_validated"

Dirs == {"data_source", "data_in_progress", "data_validated"}

\* A path at which no file exists, and a file holding a document: the text of
\* its word and its "validated" key.
NoFile == [present |-> FALSE, data |-> "-", validated |-> FALSE]

File(text, v) == [present |-> TRUE, data |-> text, validated |-> v]

\* The forms a page posts: json_data is the document (named by the text of
\* its word) or is not JSON; text is the text_<id> field, when the form has one.
Forms ==
    { [json_data |-> "draft", text |-> "none"],
      [json_data |-> "draft", text |-> "final"],
      [json_data |-> "malformed", text |-> "none"] }

\* json.loads(form_data["json_data"]) raises.
Malformed(form) == form.json_data = "malformed"

\* The document of the form with its text_<id> field written into the word.
apply_transformations_to_data(form) ==
    File(IF form.text # "none" THEN form.text ELSE form.json_data, FALSE)

\* os.path.exists(os.path.join(dir, f))
exists(d, dir, f) == d[dir][f].present

\* os.listdir(dir)
listdir(d, dir) == { f \in Names : exists(d, dir, f) }

\* sorted(S)
RECURSIVE sorted(_)
sorted(S) ==
    IF S = {} THEN << >>
    ELSE LET least == CHOOSE f \in S : \A g \in S : f <= g
         IN  << least >> \o sorted(S \ {least})

get_json_files(d) ==
    sorted({ f \in listdir(d, SOURCE_DATA_DIR)
                   \cup listdir(d, IN_PROGRESS_DATA_DIR)
                   \cup listdir(d, VALIDATED_DATA_DIR) : endswith_json(f) })

get_file_status(d, f) ==
    IF exists(d, VALIDATED_DATA_DIR, f) THEN "validated"
    ELSE IF exists(d, IN_PROGRESS_DATA_DIR, f) THEN "in_progress"
    ELSE "source"

\* A wrong priority: the validated copy before the draft.
load_data_validated_first(d, f) ==
    IF exists(d, VALIDATED_DATA_DIR, f) THEN d[VALIDATED_DATA_DIR][f]
    ELSE IF exists(d, IN_PROGRESS_DATA_DIR, f) THEN d[IN_PROGRESS_DATA_DIR][f]
    ELSE IF exists(d, SOURCE_DATA_DIR, f) THEN d[SOURCE_DATA_DIR][f]
    ELSE NoFile

\* A wrong priority: the source before the other two.
load_data_source_first(d, f) ==
    IF exists(d, SOURCE_DATA_DIR, f) THEN d[SOURCE_DATA_DIR][f]
    ELSE IF exists(d, IN_PROGRESS_DATA_DIR, f) THEN d[IN_PROGRESS_DATA_DIR][f]
    ELSE IF exists(d, VALIDATED_DATA_DIR, f) THEN d[VALIDATED_DATA_DIR][f]
    ELSE NoFile

\* The document load_data returns; NoFile stands for None.
load_data(d, f) ==
    IF exists(d, IN_PROGRESS_DATA_DIR, f) THEN d[IN_PROGRESS_DATA_DIR][f]
    ELSE IF exists(d, VALIDATED_DATA_DIR, f) THEN d[VALIDATED_DATA_DIR][f]
    ELSE IF exists(d, SOURCE_DATA_DIR, f) THEN d[SOURCE_DATA_DIR][f]
    ELSE NoFile

\* The pages a response names.
NoPage == [page |-> "none", file |-> 0]

IndexPage == [page |-> "index", file |-> 0]

ValidatePage(f) == [page |-> "validate", file |-> f]

\* all_files.index(f) if f in all_files else -1, counted from 1: the position
\* of f, or 0 when it is not in the list.
current_index(all_files, f) ==
    IF \E i \in 1..Len(all_files) : all_files[i] = f
    THEN CHOOSE i \in 1..Len(all_files) : all_files[i] = f
    ELSE 0

\* A wrong loop: the next file, whatever its status.
redirect_from_any(d, all_files, i) ==
    IF i > Len(all_files) THEN IndexPage ELSE ValidatePage(all_files[i])

\* The loop at the end of commit, from position i on.
RECURSIVE redirect_from(_, _, _)
redirect_from(d, all_files, i) ==
    IF i > Len(all_files) THEN IndexPage
    ELSE IF get_file_status(d, all_files[i]) # "validated"
         THEN ValidatePage(all_files[i])
         ELSE redirect_from(d, all_files, i + 1)

\* A wrong commit: the draft is left in place.
commit_files_keep_draft(d, f, data) ==
    [d EXCEPT ![VALIDATED_DATA_DIR][f] = File(data.data, TRUE)]

\* The directories after commit has written the validated copy and removed
\* the draft.
commit_files(d, f, data) ==
    LET d1 == [d EXCEPT ![VALIDATED_DATA_DIR][f] = File(data.data, TRUE)]
    IN  IF exists(d1, IN_PROGRESS_DATA_DIR, f)
        THEN [d1 EXCEPT ![IN_PROGRESS_DATA_DIR][f] = NoFile]
        ELSE d1

\* The response of a request that changes nothing but `last`.
Respond(op, f, ok, result) ==
    /\ last' = [op |-> op, file |-> f, ok |-> ok, data |-> "-",
                result |-> result, redirect |-> NoPage, draft |-> FALSE]
    /\ UNCHANGED << cropVars, runVars, raceVars, cacheVars, disk, source0, committed >>

InitWeb ==
    /\ CropIdle
    /\ RunsIdle
    /\ RaceIdle
    /\ CacheIdle
    /\ source0 = [f \in Names |-> IF endswith_json(f) THEN File("ocr", FALSE) ELSE NoFile]
    /\ disk = [dir \in Dirs |->
                  IF dir = SOURCE_DATA_DIR THEN source0 ELSE [f \in Names |-> NoFile]]
    /\ committed = [f \in Names |-> "-"]
    /\ last = [op |-> "none", file |-> 0, ok |-> TRUE, data |-> "-",
               result |-> NoFile, redirect |-> NoPage, draft |-> FALSE]

\* GET /
index ==
    /\ get_json_files(disk) \in Seq(Names)
    /\ Respond("index", 0, TRUE, NoFile)

\* GET /validate/<f>: 404 when load_data returns None.
validate(f) ==
    /\ f \in Names
    /\ Respond("validate", f, load_data(disk, f).present, load_data(disk, f))

\* POST /autosave/<f>
autosave(f, form) ==
    IF Malformed(form)
    THEN Respond("autosave", f, FALSE, NoFile)
    ELSE /\ disk' = [disk EXCEPT ![IN_PROGRESS_DATA_DIR][f] =
                                     apply_transformations_to_data(form)]
         /\ last' = [op |-> "autosave", file |-> f, ok |-> TRUE,
                     data |-> apply_transformations_to_data(form).data,
                     result |-> NoFile, redirect |-> NoPage, draft |-> FALSE]
         /\ UNCHANGED << cropVars, runVars, raceVars, cacheVars, source0, committed >>

\* POST /commit/<f>
commit(f, form) ==
    IF Malformed(form)
    THEN Respond("commit", f, FALSE, NoFile)
    ELSE LET transformed_data == apply_transformations_to_data(form)
             after == commit_files(disk, f, transformed_data)
             all_files == get_json_files(after)
         IN  /\ disk' = after
             /\ committed' = [committed EXCEPT ![f] = transformed_data.data]
             /\ last' = [op |-> "commit", file |-> f, ok |-> TRUE,
                         data |-> transformed_data.data, result |-> NoFile,
                         redirect |->
                             redirect_from(after, all_files,
                                           current_index(all_files, f) + 1),
                         draft |-> exists(disk, IN_PROGRESS_DATA_DIR, f)]
             /\ UNCHANGED << cropVars, runVars, raceVars, cacheVars, source0 >>

\* GET /get_source_data/<f>: 404 when the source file does not exist.
get_source_data(f) ==
    /\ f \in Names
    /\ Respond("get_source_data", f, exists(disk, SOURCE_DATA_DIR, f),
               IF exists(disk, SOURCE_DATA_DIR, f) THEN disk[SOURCE_DATA_DIR][f] ELSE NoFile)

NextWeb ==
    \/ index
    \/ \E f \in Names :
          \/ validate(f)
          \/ get_source_data(f)
          \/ \E form \in Forms : autosave(f, form)
          \/ \E form \in Forms : commit(f, form)

SpecWeb == InitWeb /\ [][NextWeb]_vars

-----------------------------------------------------------------------------
\* Claims about the review application.

\* The request last handled was a successful op.
Handled(op) == last.op = op /\ last.ok

\* The JSON files some directory holds: the members of get_json_files.
Listed == { f \in Names : endswith_json(f) /\ \E dir \in Dirs : disk[dir][f].present }

\* The listed files that are not validated.
Unvalidated == { f \in Listed : ~disk["data_validated"][f].present }

\* The validate page of the least file of S, the index page when S is empty.
PageOfFirst(S) ==
    IF S = {} THEN IndexPage
    ELSE ValidatePage(CHOOSE f \in S : \A g \in S : f <= g)

\* C16: load_data(f) returns the in-progress copy of f if there is one,
\* otherwise the validated copy if there is one, otherwise the source copy,
\* and None exactly when f is in none of the three directories.
C16_LoadPriority ==
    last.op = "validate" =>
        LET f == last.file
            draft == disk["data_in_progress"][f]
            valid == disk["data_validated"][f]
            source == disk["data_source"][f]
        IN  /\ draft.present => last.result = draft
            /\ (~draft.present /\ valid.present) => last.result = valid
            /\ (~draft.present /\ ~valid.present /\ source.present) =>
                  last.result = source
            /\ last.result = NoFile <=>
                  (~draft.present /\ ~valid.present /\ ~source.present)
            /\ last.ok = last.result.present

\* A page was loaded from the validated copy although a source copy exists.
C16_Witness ==
    /\ Handled("validate")
    /\ ~disk["data_in_progress"][last.file].present
    /\ disk["data_validated"][last.file].present
    /\ disk["data_source"][last.file].present
    /\ last.result = disk["data_validated"][last.file]
    /\ last.result # disk["data_source"][last.file]

\* C17: when commit(f) has completed, the validated directory holds f with
\* the submitted data and validated = true, the in-progress directory does
\* not hold f, and get_file_status(f) is "validated".
C17_CommitPostcondition ==
    Handled("commit") =>
        /\ disk["data_validated"][last.file] = File(last.data, TRUE)
        /\ ~disk["data_in_progress"][last.file].present
        /\ get_file_status(disk, last.file) = "validated"

\* A commit of a file that had a draft.
C17_Witness ==
    /\ Handled("commit")
    /\ last.draft
    /\ disk["data_validated"][last.file] = File(last.data, TRUE)
    /\ ~disk["data_in_progress"][last.file].present

\* C18: whenever get_file_status(f) is "validated", load_data(f) returns the
\* validated copy, which holds the data most recently committed for f.
C18_ValidatedIsLoaded ==
    \A f \in Names :
        get_file_status(disk, f) = "validated" =>
            /\ load_data(disk, f) = disk["data_validated"][f]
            /\ load_data(disk, f).data = committed[f]

\* C18, amended: whenever get_file_status(f) is "validated" and f has no
\* in-progress copy, load_data(f) returns the validated copy, which holds the
\* data most recently committed for f.
C18_ValidatedIsLoadedWithoutDraft ==
    \A f \in Names :
        (get_file_status(disk, f) = "validated" /\ ~disk["data_in_progress"][f].present) =>
            /\ load_data(disk, f) = disk["data_validated"][f]
            /\ load_data(disk, f) = File(committed[f], TRUE)

\* The page of a committed file with no draft was loaded: it shows the
\* committed data, not the source.
C18_Witness ==
    /\ Handled("validate")
    /\ get_file_status(disk, last.file) = "validated"
    /\ ~disk["data_in_progress"][last.file].present
    /\ disk["data_source"][last.file].present
    /\ last.result = File(committed[last.file], TRUE)

\* C19: no handler creates, changes or deletes a source file:
\* get_source_data(f) returns what it returned when the application started.
C19_SourceUntouched ==
    /\ disk["data_source"] = source0
    /\ last.op = "get_source_data" =>
          /\ last.result = source0[last.file]
          /\ last.ok = source0[last.file].present

\* The source of a file was fetched while the file had a draft and a
\* validated copy.
C19_Witness ==
    /\ Handled("get_source_data")
    /\ disk["data_in_progress"][last.file].present
    /\ disk["data_validated"][last.file].present
    /\ last.result = source0[last.file]

\* C20: after commit(f) the response redirects to the validate page of the
\* first unvalidated file that follows f in the sorted list of JSON files,
\* and to the index page when no file after f is unvalidated.
C20_RedirectFollowing ==
    Handled("commit") =>
        last.redirect = PageOfFirst({ g \in Unvalidated : g > last.file })

\* C20, amended: as C20 when f is in the list; when f is not in the list the
\* response redirects to the validate page of the first unvalidated file of
\* the whole list, and to the index page when every listed file is validated.
C20_RedirectNextUnvalidated ==
    Handled("commit") =>
        last.redirect =
            IF last.file \in Listed
            THEN PageOfFirst({ g \in Unvalidated : g > last.file })
            ELSE PageOfFirst(Unvalidated)

\* A commit of a file that is not in the list: the response skips a validated
\* file and names the first unvalidated one.
C20_Witness ==
    /\ Handled("commit")
    /\ last.file \notin Listed
    /\ last.redirect.page = "validate"
    /\ last.redirect.file \in Unvalidated
    /\ \E g \in Listed : g < last.redirect.file

-----------------------------------------------------------------------------
\* Two requests for the same file handled by two threads of the development
\* server (app.run serves each request in its own thread).  A handler is a
\* sequence of file-system calls; the calls of the two threads interleave.

Requests == {"req1", "req2"}

\* The file both requests name.
RaceFile == CHOOSE f \in JsonNames : \A g \in JsonNames : f <= g

\* What open(path, "w") leaves at path before anything is written.
EmptyFile == [present |-> TRUE, data |-> "", validated |-> FALSE]

InitRace ==
    /\ CropIdle
    /\ RunsIdle
    /\ CacheIdle
    /\ source0 = [f \in Names |-> IF endswith_json(f) THEN File("ocr", FALSE) ELSE NoFile]
    /\ \E draft \in {NoFile, File("draft", FALSE)}, valid \in {NoFile, File("draft", TRUE)} :
          disk = [dir \in Dirs |->
                     IF dir = SOURCE_DATA_DIR THEN source0
                     ELSE [f \in Names |->
                              IF f # RaceFile THEN NoFile
                              ELSE IF dir = IN_PROGRESS_DATA_DIR THEN draft ELSE valid]]
    /\ committed = [f \in Names |-> "-"]
    /\ last = [op |-> "none", file |-> 0, ok |-> TRUE, data |-> "-",
               result |-> NoFile, redirect |-> NoPage, draft |-> FALSE]
    /\ \E kind \in {"commit", "autosave"}, form \in { g \in Forms : ~Malformed(g) } :
          reqs = [r \in Requests |->
                     [kind |-> IF r = "req1" THEN "commit" ELSE kind,
                      data |-> IF r = "req1" THEN "final"
                               ELSE apply_transformations_to_data(form).data,
                      pc |-> "open", exists |-> FALSE, error |-> "none"]]

\* Request r moves to position next; the directories become d.
RaceStep(r, next, d) ==
    /\ reqs' = [reqs EXCEPT ![r].pc = next]
    /\ disk' = d
    /\ UNCHANGED << cropVars, runVars, cacheVars, source0, committed, last >>

\* The directory a request of this kind writes to.
save_dir(kind) ==
    IF kind = "commit" THEN VALIDATED_DATA_DIR ELSE IN_PROGRESS_DATA_DIR

\* with open(path, "w") as f: the file exists and is empty.
race_open(r) ==
    /\ reqs[r].pc = "open"
    /\ RaceStep(r, "dump", [disk EXCEPT ![save_dir(reqs[r].kind)][RaceFile] = EmptyFile])

\* json.dump(transformed_data, f, indent=2); autosave then responds.
race_dump(r) ==
    /\ reqs[r].pc = "dump"
    /\ RaceStep(r, IF reqs[r].kind = "commit" THEN "exists" ELSE "done",
                [disk EXCEPT ![save_dir(reqs[r].kind)][RaceFile] =
                                 File(reqs[r].data, reqs[r].kind = "commit")])

\* if os.path.exists(in_progress_path):
race_exists(r) ==
    /\ reqs[r].pc = "exists"
    /\ reqs' = [reqs EXCEPT ![r].exists = exists(disk, IN_PROGRESS_DATA_DIR, RaceFile),
                            ![r].pc = IF exists(disk, IN_PROGRESS_DATA_DIR, RaceFile)
                                      THEN "remove" ELSE "redirect"]
    /\ UNCHANGED << cropVars, runVars, cacheVars, webVars >>

\* os.remove(in_progress_path): raises FileNotFoundError when the file has
\* gone since the test.
race_remove(r) ==
    /\ reqs[r].pc = "remove"
    /\ IF exists(disk, IN_PROGRESS_DATA_DIR, RaceFile)
       THEN RaceStep(r, "redirect", [disk EXCEPT ![IN_PROGRESS_DATA_DIR][RaceFile] = NoFile])
       ELSE /\ reqs' = [reqs EXCEPT ![r].error = "FileNotFoundError", ![r].pc = "done"]
            /\ UNCHANGED << cropVars, runVars, cacheVars, webVars >>

\* The redirect of commit: it reads the directories and responds.
race_redirect(r) ==
    /\ reqs[r].pc = "redirect"
    /\ get_json_files(disk) \in Seq(Names)
    /\ RaceStep(r, "done", disk)

NextRace ==
    \E r \in Requests :
        \/ race_open(r)
        \/ race_dump(r)
        \/ race_exists(r)
        \/ race_remove(r)
        \/ race_redirect(r)

SpecRace == InitRace /\ [][NextRace]_vars

\* C21: when two commits, or a commit and an autosave, for the same file are
\* handled at the same time, every request completes without an error and at
\* the end the file is in the validated directory and not in the in-progress
\* directory.
C21_ConcurrentCommitsSucceed ==
    (\A r \in Requests : reqs[r].pc = "done") =>
        /\ \A r \in Requests : reqs[r].error = "none"
        /\ disk["data_validated"][RaceFile].present
        /\ ~disk["data_in_progress"][RaceFile].present

-----------------------------------------------------------------------------
\* The transcription tool: call_doc_ai_api behind the cache_to_file wrapper,
\* and the per-batch cache of augment_transcription_with_gemini, for one
\* image.  One process; a call runs to its end before the next begins.

MaxBatches == 2

\* What call_doc_ai_api returns: a Document, or None when the request failed.
Results == {"None", "doc1", "doc2"}

\* if result:
Truthy(result) == result # "None"

\* The outcome of a conversion: the exception it raised, or its value.
Raised(e) == [raised |-> e, value |-> "None"]

Returned(v) == [raised |-> "none", value |-> v]

\* The JSON text of a Document.
JsonOf(doc) ==
    CASE doc = "doc1" -> "json:doc1"
      [] doc = "doc2" -> "json:doc2"
      [] OTHER -> "null"

\* serializer = json.dumps: a Document is not a type json.dumps encodes.
json_dumps(result) ==
    IF result \in {"doc1", "doc2"} THEN Raised("TypeError")
    ELSE Returned(JsonOf(result))

\* deserializer = Document.from_json: the Document of a JSON text; a text
\* that is not a JSON object does not parse.
Document_from_json(text) ==
    CASE text = "json:doc1" -> Returned("doc1")
      [] text = "json:doc2" -> Returned("doc2")
      [] OTHER -> Raised("ParseError")

\* The content hashes of the batches of an image.
BatchHashes == {"h1", "h2"}

\* batches: the non-empty lists of at most MaxBatches batches.
BatchLists ==
    UNION { [1..n -> BatchHashes] : n \in 1..MaxBatches }

NoCache == [present |-> FALSE, text |-> ""]

CacheFile(text) == [present |-> TRUE, text |-> text]

NoCall ==
    [fn |-> "none", force |-> FALSE, pc |-> "done", had_cache |-> FALSE,
     executed |-> 0, source |-> "none", result |-> "None",
     out |-> Returned("None"), batches |-> << >>, i |-> 0, loaded_old |-> FALSE]

\* A wrong wrapper: force_recache leaves the cache file in place.
force_delete_keep(file, force_recache) == file

\* if kwargs.get("force_recache"): if os.path.exists(cache_path): os.remove
force_delete(file, force_recache) ==
    IF force_recache /\ file.present THEN NoCache ELSE file

\* if force_recache and os.path.exists(batch_cache_dir): shutil.rmtree
rmtree_if_forced(dir, force_recache) ==
    IF force_recache /\ (\E h \in BatchHashes : dir[h] # "absent")
    THEN [h \in BatchHashes |-> "absent"]
    ELSE dir

\* .cache holds no cache for the image, or caches left by an earlier run.
InitCache ==
    /\ CropIdle
    /\ RunsIdle
    /\ WebIdle
    /\ RaceIdle
    /\ cache \in [docai : {NoCache, CacheFile("json:doc1")},
                  batches : [BatchHashes -> {"absent", "old"}]]
    /\ call = NoCall

\* The call under way moves on; only the cache and the call change.
CacheFrame == UNCHANGED << cropVars, runVars, webVars, raceVars >>

\* call_doc_ai_api(config=..., image_path=..., force_recache=...) is called.
call_doc_ai_api(force_recache) ==
    /\ call.pc = "done"
    /\ call' = [NoCall EXCEPT !.fn = "call_doc_ai_api", !.force = force_recache,
                              !.pc = "force", !.had_cache = cache.docai.present]
    /\ UNCHANGED cache
    /\ CacheFrame

\* wrapper, lines 48-51
wrapper_force_delete ==
    /\ call.fn = "call_doc_ai_api"
    /\ call.pc = "force"
    /\ cache' = [cache EXCEPT !.docai = force_delete(cache.docai, call.force)]
    /\ call' = [call EXCEPT !.pc = "lookup"]
    /\ CacheFrame

\* wrapper, lines 52-58
wrapper_lookup ==
    /\ call.fn = "call_doc_ai_api"
    /\ call.pc = "lookup"
    /\ IF cache.docai.present
       THEN call' = [call EXCEPT !.source = "cache",
                                 !.out = Document_from_json(cache.docai.text),
                                 !.pc = "done"]
       ELSE call' = [call EXCEPT !.pc = "execute"]
    /\ UNCHANGED cache
    /\ CacheFrame

\* result = func(*args, **kwargs)
wrapper_execute ==
    /\ call.fn = "call_doc_ai_api"
    /\ call.pc = "execute"
    /\ \E result \in Results :
          call' = [call EXCEPT !.executed = @ + 1, !.source = "func",
                               !.result = result,
                               !.out = Returned(result),
                               !.pc = IF Truthy(result) THEN "store" ELSE "done"]
    /\ UNCHANGED cache
    /\ CacheFrame

\* wrapper, lines 61-65: the file is opened for writing, then the result is
\* serialized and written; an exception of the serializer leaves the wrapper.
wrapper_store ==
    /\ call.fn = "call_doc_ai_api"
    /\ call.pc = "store"
    /\ LET text == json_dumps(call.result)
       IN  IF text.raised # "none"
           THEN /\ cache' = [cache EXCEPT !.docai = CacheFile("")]
                /\ call' = [call EXCEPT !.out = Raised(text.raised), !.pc = "done"]
           ELSE /\ cache' = [cache EXCEPT !.docai = CacheFile(text.value)]
                /\ call' = [call EXCEPT !.pc = "done"]
    /\ CacheFrame

\* augment_transcription_with_gemini(..., force_recache=...) is called; the
\* batch files in the directory were written before this call.
augment_transcription_with_gemini(force_recache, batches) ==
    /\ call.pc = "done"
    /\ call' = [NoCall EXCEPT !.fn = "augment_transcription_with_gemini",
                              !.force = force_recache, !.pc = "prepare",
                              !.had_cache = \E h \in BatchHashes : cache.batches[h] # "absent",
                              !.batches = batches, !.i = 1]
    /\ cache' = [cache EXCEPT !.batches =
                    [h \in BatchHashes |-> IF @[h] = "absent" THEN "absent" ELSE "old"]]
    /\ CacheFrame

\* augment_transcription_with_gemini, lines 444-452
gemini_prepare_cache_dir ==
    /\ call.fn = "augment_transcription_with_gemini"
    /\ call.pc = "prepare"
    /\ cache' = [cache EXCEPT !.batches = rmtree_if_forced(@, call.force)]
    /\ call' = [call EXCEPT !.pc = "batch"]
    /\ CacheFrame

\* One turn of the loop over the batches, lines 459-486: the cached result is
\* loaded, or the batch is sent and a result that is not empty is cached.
gemini_batch ==
    /\ call.fn = "augment_transcription_with_gemini"
    /\ call.pc = "batch"
    /\ LET h == call.batches[call.i]
           next == IF call.i = Len(call.batches) THEN "done" ELSE "batch"
       IN  IF cache.batches[h] # "absent"
           THEN /\ call' = [call EXCEPT !.i = @ + 1, !.pc = next, !.source = "cache",
                                        !.loaded_old = @ \/ cache.batches[h] = "old"]
                /\ UNCHANGED cache
           ELSE \E batch_results \in {"None", "results"} :
                   /\ call' = [call EXCEPT !.i = @ + 1, !.pc = next,
                                           !.source = "func", !.executed = @ + 1]
                   /\ cache' = IF Truthy(batch_results)
                               THEN [cache EXCEPT !.batches[h] = "new"]
                               ELSE cache
    /\ CacheFrame

NextCache ==
    \/ \E force_recache \in BOOLEAN : call_doc_ai_api(force_recache)
    \/ wrapper_force_delete
    \/ wrapper_lookup
    \/ wrapper_execute
    \/ wrapper_store
    \/ \E force_recache \in BOOLEAN, batches \in BatchLists :
          augment_transcription_with_gemini(force_recache, batches)
    \/ gemini_prepare_cache_dir
    \/ gemini_batch

SpecCache == InitCache /\ [][NextCache]_vars

\* A call of the wrapped function has ended.
WrapperDone(force_recache) ==
    /\ call.fn = "call_doc_ai_api"
    /\ call.pc = "done"
    /\ call.force = force_recache

\* C22: a call without force_recache that finds the cache file does not
\* execute the function and returns the deserialized content of the file; one
\* that finds no cache file executes the function exactly once and leaves the
\* serialized result in the cache file if and only if the result is truthy.
C22_CacheHitAndMiss ==
    WrapperDone(FALSE) =>
        IF call.had_cache
        THEN /\ call.executed = 0
             /\ call.out.raised = "none"
             /\ call.out = Document_from_json(cache.docai.text)
        ELSE /\ call.executed = 1
             /\ Truthy(call.result) <=> cache.docai = CacheFile(JsonOf(call.result))
             /\ ~Truthy(call.result) => ~cache.docai.present

\* C23: a call with force_recache never returns cached content: the cache
\* file is gone before the lookup and the function is executed; the Gemini
\* stage empties the batch directory before it processes a batch, so no batch
\* result written before the call is loaded.
C23_ForceNeverReadsOldCache ==
    /\ (call.fn = "call_doc_ai_api" /\ call.force) =>
          /\ call.pc = "lookup" => ~cache.docai.present
          /\ call.source # "cache"
          /\ call.pc = "done" => call.executed = 1
    /\ (call.fn = "augment_transcription_with_gemini" /\ call.force) =>
          /\ call.pc \in {"batch", "done"} =>
                \A h \in BatchHashes : cache.batches[h] # "old"
          /\ ~call.loaded_old

\* A forced call that found a cache file has ended: it executed the function.
C23_Witness ==
    /\ WrapperDone(TRUE)
    /\ call.had_cache
    /\ call.executed = 1
    /\ call.source = "func"

=============================================================================
